---- MODULE Spec2Model ----
(***************************************************************************)
(* Model of the video merger bot: the per-user pending lists kept in       *)
(* bot.user_videos, the files in the per-user scratch directories under    *)
(* ./temp, and the three event handlers handle_video, merge_command and    *)
(* reset_command together with video_processor.store_video, merge_videos   *)
(* and clean_user_videos.                                                  *)
(*                                                                         *)
(* Every handler is a coroutine.  A handler instance runs from one await   *)
(* to the next without interruption; at an await (gateway call, download,  *)
(* external tool) other handler instances may run.  The handlers hold no   *)
(* lock and no per-user guard, so the model lets any number of handler     *)
(* instances be in flight at once; the only serialisation is the event     *)
(* loop's: one synchronous segment at a time.                              *)
(*                                                                         *)
(* The environment: the gateway's calls and the download may raise, the    *)
(* external tool exits with any code and may leave a partial output when   *)
(* it fails, a stored video appears on disk when its download completes,   *)
(* and deleting an existing file succeeds.                                 *)
(***************************************************************************)
EXTENDS Integers, Sequences, FiniteSets, TLC

\* Number of inbound events (updates) of one run.
MaxEvents == 4

Users == {1, 2}

Events == 1 .. MaxEvents

\* bot.py:53 -- the size limit, in MB (1 MB = 1024 * 1024 bytes, bot.py:51)
LimitMB == 50
BytesPerMB == 1024 * 1024

\* Declared sizes the gateway may send: the limit itself and one byte over.
Sizes == {LimitMB * BytesPerMB, LimitMB * BytesPerMB + 1}

\* Exit codes of the external tool.
ExitCodes == {0, 1}

\* A subprocess that has not exited yet.
NotRun == -1

VARIABLES
  user_videos,  \* bot.py:22  dict: user id -> list of stored paths
  files,        \* the files that exist under TEMP_DIR (video_processor.py:12)
  task,         \* one record per inbound event: the handler instance's position and locals
  recorded      \* history: per user, the paths appended by handle_video, in append order

vars == <<user_videos, files, task, recorded>>

----------------------------------------------------------------------------
\* Paths.  uuid.uuid4() never repeats; the handler instance of event t draws
\* its names from t, and the prefix tells the three names of a merge apart.

uuid4(t) == t

\* video_processor.py:26,30
VideoPath(u, t) == [dir |-> u, kind |-> "video", id |-> uuid4(t)]
\* video_processor.py:98
ListFile(u, t) == [dir |-> u, kind |-> "list", id |-> uuid4(t)]
\* video_processor.py:99
MergedPath(u, t) == [dir |-> u, kind |-> "merged", id |-> uuid4(t)]
\* video_processor.py:100
WatermarkedPath(u, t) == [dir |-> u, kind |-> "watermarked", id |-> uuid4(t)]

\* result_path=None
NoPath == [dir |-> 0, kind |-> "none", id |-> 0]

Range(s) == {s[i] : i \in 1 .. Len(s)}

\* The files of user u's scratch directory: TEMP_DIR / str(user_id)
UserDir(fs, u) == {f \in fs : f.dir = u}

----------------------------------------------------------------------------
\* Pure pieces of the handlers.

\* Variant of TooLarge: the comparison is off by one byte.
TooLargeOffByOne(size) == size > LimitMB * BytesPerMB + 1

\* bot.py:51-53  file_size / (1024 * 1024) > 50; the division by a power of
\* two is exact, so the test is size > 50 * 1024 * 1024.
TooLarge(size) == size > LimitMB * BytesPerMB

\* Variant of Record: the new path is put in front of the list.
RecordInFront(vids, u, p) ==
  LET cur == IF u \in DOMAIN vids THEN vids[u] ELSE <<>>
  IN  [x \in DOMAIN vids \cup {u} |-> IF x = u THEN <<p>> \o cur ELSE vids[x]]

\* bot.py:67-69
Record(vids, u, p) ==
  LET cur == IF u \in DOMAIN vids THEN vids[u] ELSE <<>>
  IN  [x \in DOMAIN vids \cup {u} |-> IF x = u THEN Append(cur, p) ELSE vids[x]]

\* Variant of TooFew: one pending video is enough.
TooFewBelowOne(vids, u) == u \notin DOMAIN vids \/ Len(vids[u]) < 1

\* bot.py:89  the precondition of /merge: TRUE when the request is rejected
TooFew(vids, u) == u \notin DOMAIN vids \/ Len(vids[u]) < 2

\* Variant of Clear: the list is left as it is.
ClearNothing(vids, u) == vids

\* Variant of Clear: every user's list is emptied.
ClearEveryUser(vids, u) == [x \in DOMAIN vids |-> <<>>]

\* bot.py:117 and bot.py:134  user_videos[user_id] = []
Clear(vids, u) == [vids EXCEPT ![u] = <<>>]

\* Variant of AfterMergeError: the failure path clears the list as well.
ClearAfterMergeError(vids, u) == [vids EXCEPT ![u] = <<>>]

\* bot.py:121-125  the except branch of merge_command: log and reply only
AfterMergeError(vids, u) == vids

\* video_processor.py:149-152  delete the individual video files
RemovePaths(fs, video_paths) == fs \ Range(video_paths)

\* video_processor.py:155-157  delete the result file if provided
RemoveResult(fs, result_path) ==
  IF result_path # NoPath /\ result_path \in fs THEN fs \ {result_path} ELSE fs

\* Variant of Sweep: the directory is left as it is.
SweepNothing(fs, u) == fs

\* video_processor.py:160-167  sweep the user's directory
Sweep(fs, u) == fs \ UserDir(fs, u)

\* Variant of clean_user_videos: nothing is deleted.
CleanNothing(fs, u, video_paths, result_path) == fs

\* video_processor.py:145-169
clean_user_videos(fs, u, video_paths, result_path) ==
  Sweep(RemoveResult(RemovePaths(fs, video_paths), result_path), u)

\* Variant of RemoveListFile: the finally clause is missing.
KeepListFile(fs, list_file) == fs

\* video_processor.py:140-143  finally: remove the list file
RemoveListFile(fs, list_file) == IF list_file \in fs THEN fs \ {list_file} ELSE fs

----------------------------------------------------------------------------
\* Handler instances.

NoTask ==
  [type |-> "none", user |-> 0, pc |-> "new", size |-> 0, manifest |-> <<>>,
   concat_rc |-> NotRun, wm_rc |-> NotRun, reply |-> "", stage |-> "",
   stored |-> FALSE, delivered |-> FALSE,
   \* history of a merge: the list when the request was accepted (bot.py:89),
   \* how often each tool was started, and the paths a cleanup could not delete
   accepted |-> <<>>, concat_runs |-> 0, wm_runs |-> 0, undeletable |-> {}]

\* Events are taken in order: event t is dispatched once events 1..t-1 were.
Fresh(t) == task[t].type = "none" /\ \A s \in 1 .. t - 1 : task[s].type # "none"

Init ==
  /\ user_videos = << >>
  /\ files = {}
  /\ task = [t \in Events |-> NoTask]
  /\ recorded = [u \in Users |-> <<>>]

----------------------------------------------------------------------------
\* handle_video (bot.py:45-82)

\* The end of a handler instance: its last reply and, for a failure, the place.
Finish(t, reply, stage) ==
  [task EXCEPT ![t].pc = "done", ![t].reply = reply, ![t].stage = stage]

\* bot.py:47-60  a video message arrives; the size check runs before any download
HandleVideo(t, u, size) ==
  /\ Fresh(t)
  /\ LET started == [task EXCEPT ![t].type = "video", ![t].user = u, ![t].size = size]
     IN  task' =
           IF TooLarge(size)
             THEN \* bot.py:53-57
                  [started EXCEPT ![t].pc = "done", ![t].reply = "too_large"]
             ELSE \* bot.py:60-64  up to the await of the download
                  [started EXCEPT ![t].pc = "download"]
  /\ UNCHANGED <<user_videos, files, recorded>>

\* bot.py:64-76  the download completed: the file is on disk, the path is
\* appended, then the status message is edited.  (When that edit raises, the
\* handler replies with the error text instead, bot.py:78-82; the path stays
\* appended either way, so the two replies are not told apart here.)
VideoStored(t) ==
  /\ task[t].type = "video" /\ task[t].pc = "download"
  /\ LET u == task[t].user
         p == VideoPath(u, t)
     IN  /\ files' = files \cup {p}
         /\ user_videos' = Record(user_videos, u, p)
         /\ recorded' = [recorded EXCEPT ![u] = Append(@, p)]
         /\ task' = [Finish(t, "saved", "") EXCEPT ![t].stored = TRUE]

\* bot.py:60-64, 78-82  the status reply, get_file or the download raised
VideoDownloadFailed(t) ==
  /\ task[t].type = "video" /\ task[t].pc = "download"
  /\ task' = Finish(t, "upload_error", "download")
  /\ UNCHANGED <<user_videos, files, recorded>>

----------------------------------------------------------------------------
\* merge_command (bot.py:84-125) with merge_videos (video_processor.py:91-143)

\* bot.py:86-100  /merge arrives; rejected when fewer than 2 videos are pending
MergeCommand(t, u) ==
  /\ Fresh(t)
  /\ LET started == [task EXCEPT ![t].type = "merge", ![t].user = u]
     IN  task' =
           IF TooFew(user_videos, u)
             THEN [started EXCEPT ![t].pc = "done", ![t].reply = "need_two"]
             ELSE [started EXCEPT ![t].pc = "status", ![t].accepted = user_videos[u]]
  /\ UNCHANGED <<user_videos, files, recorded>>

\* The except branch of merge_command, bot.py:121-125
MergeError(t, stage) ==
  /\ task' = Finish(t, "merge_error", stage)
  /\ user_videos' = AfterMergeError(user_videos, task[t].user)
  /\ UNCHANGED recorded

\* bot.py:97-103, video_processor.py:94-124  the status reply returned;
\* merge_videos writes the manifest from the list as it is now and starts
\* the concatenation
MergeVideosStart(t) ==
  /\ task[t].type = "merge" /\ task[t].pc = "status"
  /\ LET u == task[t].user
     IN  /\ files' = files \cup {ListFile(u, t)}
         /\ task' = [task EXCEPT ![t].pc = "concat", ![t].manifest = user_videos[u],
                                 ![t].concat_runs = @ + 1]
  /\ UNCHANGED <<user_videos, recorded>>

\* bot.py:97 the status reply raised, or video_processor.py:104-106 writing
\* the manifest raised, or video_processor.py:120-124 the process could not
\* be created (the finally clause removes what was created)
MergeStartFailed(t) ==
  /\ task[t].type = "merge" /\ task[t].pc = "status"
  /\ files' = RemoveListFile(files, ListFile(task[t].user, t))
  /\ MergeError(t, "start")

\* video_processor.py:126-133  the concatenation exited with code 0; the
\* merged file exists and apply_watermark starts the second tool
ConcatOk(t) ==
  /\ task[t].type = "merge" /\ task[t].pc = "concat"
  /\ files' = files \cup {MergedPath(task[t].user, t)}
  /\ task' = [task EXCEPT ![t].pc = "watermark", ![t].concat_rc = 0,
                          ![t].wm_runs = @ + 1]
  /\ UNCHANGED <<user_videos, recorded>>

\* Variant of ConcatFailed: the exit code is not looked at and the watermark
\* tool is started all the same.
ConcatExitIgnored(t, rc, partial) ==
  /\ task[t].type = "merge" /\ task[t].pc = "concat"
  /\ rc # 0
  /\ files' = files \cup (IF partial THEN {MergedPath(task[t].user, t)} ELSE {})
  /\ task' = [task EXCEPT ![t].pc = "watermark", ![t].concat_rc = rc,
                          ![t].wm_runs = @ + 1]
  /\ UNCHANGED <<user_videos, recorded>>

\* video_processor.py:128-130, 137-143  the concatenation exited non-zero;
\* the tool may have left a partial output
ConcatFailed(t, rc, partial) ==
  /\ task[t].type = "merge" /\ task[t].pc = "concat"
  /\ rc # 0
  /\ LET u == task[t].user
         out == IF partial THEN {MergedPath(u, t)} ELSE {}
     IN  files' = RemoveListFile(files \cup out, ListFile(u, t))
  /\ task' = [Finish(t, "merge_error", "concat") EXCEPT ![t].concat_rc = rc]
  /\ user_videos' = AfterMergeError(user_videos, task[t].user)
  /\ UNCHANGED recorded

\* video_processor.py:81-85, 133-135, 140-143  the watermark tool exited with
\* code 0; merge_videos returns and merge_command awaits the status edit
WatermarkOk(t) ==
  /\ task[t].type = "merge" /\ task[t].pc = "watermark"
  /\ LET u == task[t].user
     IN  files' = RemoveListFile(files \cup {WatermarkedPath(u, t)}, ListFile(u, t))
  /\ task' = [task EXCEPT ![t].pc = "edit", ![t].wm_rc = 0]
  /\ UNCHANGED <<user_videos, recorded>>

\* Variant of WatermarkFailed: the tool is started again after a failure.
WatermarkFailedRetries(t, rc, partial) ==
  /\ task[t].type = "merge" /\ task[t].pc = "watermark"
  /\ rc # 0
  /\ files' = files \cup (IF partial THEN {WatermarkedPath(task[t].user, t)} ELSE {})
  /\ task' = [task EXCEPT ![t].wm_rc = rc, ![t].wm_runs = @ + 1]
  /\ UNCHANGED <<user_videos, recorded>>

\* video_processor.py:83-89, 137-143  the watermark tool exited non-zero
WatermarkFailed(t, rc, partial) ==
  /\ task[t].type = "merge" /\ task[t].pc = "watermark"
  /\ rc # 0
  /\ LET u == task[t].user
         out == IF partial THEN {WatermarkedPath(u, t)} ELSE {}
     IN  files' = RemoveListFile(files \cup out, ListFile(u, t))
  /\ task' = [Finish(t, "merge_error", "watermark") EXCEPT ![t].wm_rc = rc]
  /\ user_videos' = AfterMergeError(user_videos, task[t].user)
  /\ UNCHANGED recorded

\* bot.py:106-110  the status edit returned; the result file is opened (which
\* raises when it is gone) and the upload of the result starts
MergeSendStart(t) ==
  /\ task[t].type = "merge" /\ task[t].pc = "edit"
  /\ IF WatermarkedPath(task[t].user, t) \in files
       THEN /\ task' = [task EXCEPT ![t].pc = "send"]
            /\ UNCHANGED <<user_videos, recorded>>
       ELSE MergeError(t, "open")
  /\ UNCHANGED files

\* bot.py:106  the status edit raised
MergeEditFailed(t) ==
  /\ task[t].type = "merge" /\ task[t].pc = "edit"
  /\ MergeError(t, "edit")
  /\ UNCHANGED files

\* bot.py:110-119  the result was delivered: clean up, clear the list, then
\* await the last status edit
MergeDelivered(t) ==
  /\ task[t].type = "merge" /\ task[t].pc = "send"
  /\ LET u == task[t].user
     IN  /\ files' = clean_user_videos(files, u, user_videos[u], WatermarkedPath(u, t))
         /\ user_videos' = Clear(user_videos, u)
  /\ task' = [task EXCEPT ![t].pc = "final", ![t].delivered = TRUE]
  /\ UNCHANGED recorded

\* Variant of MergeDeliveryFailed: the cleanup runs although the delivery
\* raised (a cleanup in a finally clause).
MergeDeliveryFailedCleans(t) ==
  /\ task[t].type = "merge" /\ task[t].pc = "send"
  /\ LET u == task[t].user
     IN  /\ files' = clean_user_videos(files, u, user_videos[u], WatermarkedPath(u, t))
         /\ user_videos' = Clear(user_videos, u)
  /\ task' = Finish(t, "merge_error", "send")
  /\ UNCHANGED recorded

\* bot.py:110-113  the delivery raised
MergeDeliveryFailed(t) ==
  /\ task[t].type = "merge" /\ task[t].pc = "send"
  /\ MergeError(t, "send")
  /\ UNCHANGED files

\* Variant of MergeFinish: the handler waits on instead of returning.
MergeFinishWaits(t, edit_ok) ==
  /\ task[t].type = "merge" /\ task[t].pc = "final"
  /\ task' = [task EXCEPT ![t].stage = "final"]
  /\ UNCHANGED <<user_videos, files, recorded>>

\* bot.py:119  the last status edit returned, or raised (bot.py:121-125)
MergeFinish(t, edit_ok) ==
  /\ task[t].type = "merge" /\ task[t].pc = "final"
  /\ IF edit_ok
       THEN /\ task' = Finish(t, "merged", "")
            /\ UNCHANGED <<user_videos, recorded>>
       ELSE MergeError(t, "final")
  /\ UNCHANGED files

----------------------------------------------------------------------------
\* reset_command (bot.py:127-138): no await before the list is cleared

\* Variant of ResetCommand: the test of bot.py:131 is missing, the list is
\* cleared and the directory swept whatever the list holds.
ResetAlways(t, u) ==
  /\ Fresh(t)
  /\ files' = clean_user_videos(files, u, <<>>, NoPath)
  /\ user_videos' = [x \in DOMAIN user_videos \cup {u} |->
                       IF x = u THEN <<>> ELSE user_videos[x]]
  /\ task' = [task EXCEPT ![t].type = "reset", ![t].user = u, ![t].pc = "done",
                          ![t].reply = "cleared"]
  /\ UNCHANGED recorded

ResetCommand(t, u) ==
  /\ Fresh(t)
  /\ LET started == [task EXCEPT ![t].type = "reset", ![t].user = u, ![t].pc = "done"]
     IN  IF u \in DOMAIN user_videos /\ user_videos[u] # <<>>
           THEN /\ files' = clean_user_videos(files, u, user_videos[u], NoPath)
                /\ user_videos' = Clear(user_videos, u)
                /\ task' = [started EXCEPT ![t].reply = "cleared"]
           ELSE /\ task' = [started EXCEPT ![t].reply = "nothing_to_clear"]
                /\ UNCHANGED <<user_videos, files>>
  /\ UNCHANGED recorded

----------------------------------------------------------------------------

Next ==
  \/ \E t \in Events, u \in Users, size \in Sizes : HandleVideo(t, u, size)
  \/ \E t \in Events : VideoStored(t)
  \/ \E t \in Events : VideoDownloadFailed(t)
  \/ \E t \in Events, u \in Users : MergeCommand(t, u)
  \/ \E t \in Events : MergeVideosStart(t)
  \/ \E t \in Events : MergeStartFailed(t)
  \/ \E t \in Events : ConcatOk(t)
  \/ \E t \in Events, rc \in ExitCodes, partial \in BOOLEAN : ConcatFailed(t, rc, partial)
  \/ \E t \in Events : WatermarkOk(t)
  \/ \E t \in Events, rc \in ExitCodes, partial \in BOOLEAN : WatermarkFailed(t, rc, partial)
  \/ \E t \in Events : MergeSendStart(t)
  \/ \E t \in Events : MergeEditFailed(t)
  \/ \E t \in Events : MergeDelivered(t)
  \/ \E t \in Events : MergeDeliveryFailed(t)
  \/ \E t \in Events, ok \in BOOLEAN : MergeFinish(t, ok)
  \/ \E t \in Events, u \in Users : ResetCommand(t, u)

Spec == Init /\ [][Next]_vars

----------------------------------------------------------------------------
\* Properties.

\* snapshot(u): the pending list of u, empty when u has no session entry
Pending(u) == IF u \in DOMAIN user_videos THEN user_videos[u] ELSE <<>>

LimitBytes == LimitMB * BytesPerMB

\* Event t is a video whose path was appended.
StoredVideo(t) == task[t].type = "video" /\ task[t].stored

\* No /merge and no /reset of user u has arrived.
OnlyUploads(u) == \A t \in Events : task[t].user = u => task[t].type = "video"

\* This step is a step of handler instance t.
StepOf(t) == task'[t] # task[t]

\* This step is the arrival of event t, of the given type.
Arrival(t, type) == task[t].type = "none" /\ task'[t].type = type

\* This step is the cleanup of merge t after its result was delivered.
CleanupOf(t) == task[t].pc = "send" /\ task'[t].pc = "final"

\* The pipeline of merge t failed: one of the two tools exited non-zero.
PipelineFailed(t) ==
  /\ task[t].type = "merge" /\ task[t].pc = "done"
  /\ task[t].stage \in {"concat", "watermark"}

\* C1: for every user with uploads only (no merge, no reset), the pending list
\* is the sequence of that user's stored paths in the order they were
\* recorded, and its length is the number of that user's stored uploads.
C1_UploadOrder ==
  \A u \in Users :
    OnlyUploads(u) =>
      /\ Pending(u) = recorded[u]
      /\ Len(Pending(u)) = Cardinality({t \in Events : StoredVideo(t) /\ task[t].user = u})

\* C1 witness: a user with uploads only holds three paths, and the first one
\* recorded is not the first one that arrived.
C1_Witness ==
  \E u \in Users :
    /\ OnlyUploads(u)
    /\ Len(Pending(u)) = 3
    /\ Pending(u)[1].id > Pending(u)[2].id

\* C2: the step in which a merge cleans up after the delivery of its result
\* leaves the user's pending list empty and the user's scratch directory empty.
C2_SuccessLeavesNothing ==
  [][\A t \in Events :
       CleanupOf(t) =>
         /\ user_videos'[task[t].user] = <<>>
         /\ UserDir(files', task[t].user) = {}]_vars

\* C2 witness: a merge has delivered its result and cleaned up; both tools
\* exited 0, the list is empty and so is the directory.
C2_Witness ==
  \E t \in Events :
    /\ task[t].type = "merge" /\ task[t].delivered
    /\ task[t].concat_rc = 0 /\ task[t].wm_rc = 0
    /\ Len(task[t].manifest) >= 2
    /\ Pending(task[t].user) = <<>>
    /\ UserDir(files, task[t].user) = {}

\* C3: no step of a merge request other than the cleanup after a delivery
\* changes any pending list or removes a stored video; in particular a merge
\* whose pipeline fails leaves the list as it was, same paths in the same
\* order, with the files still there for a retry.
C3_FailedMergeKeepsList ==
  [][\A t \in Events :
       (task'[t].type = "merge" /\ StepOf(t) /\ ~CleanupOf(t)) =>
         /\ user_videos' = user_videos
         /\ \A f \in files : f.kind = "video" => f \in files']_vars

\* C3 witness: a merge ended in a pipeline failure and the list still holds
\* the paths of its manifest, in order.
C3_Witness ==
  \E t \in Events :
    /\ PipelineFailed(t)
    /\ task[t].reply = "merge_error"
    /\ Len(task[t].manifest) >= 2
    /\ Pending(task[t].user) = task[t].manifest

\* C4: a /merge that arrives while the user has fewer than 2 pending files
\* (or no session entry) ends at once with the precondition reply: no tool is
\* run, no manifest is written, and the files and all pending lists (and the
\* set of session entries) stay as they were; a finished handler never moves.
C4_TooFewIsNoOp ==
  [][\A t \in Events :
       /\ (Arrival(t, "merge") /\ Len(Pending(task'[t].user)) < 2) =>
            /\ task'[t].pc = "done" /\ task'[t].reply = "need_two"
            /\ task'[t].concat_rc = NotRun /\ task'[t].wm_rc = NotRun
            /\ task'[t].manifest = <<>>
            /\ files' = files
            /\ user_videos' = user_videos
       /\ (task[t].pc = "done" => task'[t] = task[t])]_vars

\* C4 witness: a /merge was rejected for a user who has exactly one pending
\* file, and another one for a user with no session entry.
C4_Witness ==
  \E t, s \in Events :
    /\ task[t].type = "merge" /\ task[t].reply = "need_two"
    /\ Len(Pending(task[t].user)) = 1
    /\ task[s].type = "merge" /\ task[s].reply = "need_two"
    /\ task[s].user \notin DOMAIN user_videos

\* Path p is an input of a merge whose result was delivered.
MergedBy(p) ==
  {s \in Events : task[s].type = "merge" /\ task[s].delivered /\ p \in Range(task[s].manifest)}

MergeInFlight(t) ==
  task[t].type = "merge" /\ task[t].pc \in {"concat", "watermark", "edit", "send", "final"}

C7_ResetClears ==
  [][\A t \in Events :
       (Arrival(t, "reset") /\ Pending(task'[t].user) # <<>>) =>
         /\ \A f \in Range(Pending(task'[t].user)) : f \notin files'
         /\ user_videos'[task'[t].user] = <<>>
         /\ task'[t].reply = "cleared" /\ task'[t].pc = "done"]_vars

\* C7 witness: a reset has cleared a list whose files were on disk: the user's
\* recorded paths are all gone and the list is empty.
C7_Witness ==
  \E t \in Events :
    /\ task[t].type = "reset" /\ task[t].reply = "cleared"
    /\ Len(recorded[task[t].user]) >= 2
    /\ Pending(task[t].user) = <<>>
    /\ \A f \in Range(recorded[task[t].user]) : f \notin files
    /\ \A s \in Events : task[s].type # "merge"

\* C8: a pending list grows only in the step that completes the download of a
\* video whose declared size is at most 50 MiB, and by that video's path; an
\* oversize video is rejected on arrival and never reaches the download; the
\* rejection and a failed download change neither the lists nor the files.
C8_UploadGuards ==
  [][/\ \A u \in Users :
          Pending(u)' # Pending(u) /\ Pending(u)' # <<>> =>
            \E t \in Events :
              /\ task[t].type = "video" /\ task[t].user = u
              /\ task[t].pc = "download" /\ task'[t].stored
              /\ task[t].size <= LimitBytes
              /\ Pending(u)' = Append(Pending(u), VideoPath(u, t))
              /\ VideoPath(u, t) \in files'
     /\ \A t \in Events :
          /\ (Arrival(t, "video") /\ task'[t].size > LimitBytes) =>
               /\ task'[t].pc = "done" /\ task'[t].reply = "too_large"
               /\ user_videos' = user_videos /\ files' = files
          /\ (task'[t].type = "video" /\ task'[t].pc = "download") =>
               task'[t].size <= LimitBytes
          /\ (task'[t].type = "video" /\ StepOf(t) /\ ~task'[t].stored) =>
               user_videos' = user_videos /\ files' = files]_vars

\* C8 witness: one upload was rejected as oversize, one failed in the
\* download, one of exactly 50 MiB was stored; the list holds the stored one.
C8_Witness ==
  \E a, b, c \in Events :
    /\ task[a].type = "video" /\ task[a].reply = "too_large"
    /\ task[b].type = "video" /\ task[b].stage = "download" /\ task[b].user = task[a].user
    /\ StoredVideo(c) /\ task[c].size = LimitBytes /\ task[c].user = task[a].user
    /\ Pending(task[a].user) = <<VideoPath(task[c].user, c)>>

\* C9: a step of a handler instance of one user changes neither the pending
\* list (or the presence of a session entry) nor the scratch directory of any
\* other user; and for users with uploads only, each list's length is the
\* number of that user's stored uploads.
C9_UsersIsolated ==
  [][/\ \A t \in Events :
          StepOf(t) =>
            \A v \in Users \ {task'[t].user} :
              /\ (v \in DOMAIN user_videos') = (v \in DOMAIN user_videos)
              /\ Pending(v)' = Pending(v)
              /\ UserDir(files', v) = UserDir(files, v)
     /\ \A u \in Users :
          OnlyUploads(u)' =>
            Len(Pending(u)') =
              Cardinality({t \in Events : StoredVideo(t)' /\ task'[t].user = u})]_vars

\* C9 witness: uploads of the two users overlapped: one user holds two paths,
\* stored in the reverse of their arrival order, and the other user's single
\* upload arrived between those two.
C9_Witness ==
  \E a, b \in Users :
    /\ a # b /\ OnlyUploads(a) /\ OnlyUploads(b)
    /\ Len(Pending(a)) = 2 /\ Len(Pending(b)) = 1
    /\ Pending(a)[1].id > Pending(b)[1].id
    /\ Pending(b)[1].id > Pending(a)[2].id

\* The three artifacts of merge t.
Artifacts(t) ==
  {ListFile(task[t].user, t), MergedPath(task[t].user, t), WatermarkedPath(task[t].user, t)}

\* C10: once a merge has ended in a pipeline failure none of its artifacts
\* (manifest, merged file, watermarked file) is in the scratch directory.
C10_NoArtifactsAfterFailure ==
  \A t \in Events : PipelineFailed(t) => Artifacts(t) \cap files = {}

\* merge_videos has returned (or raised) for merge t.
MergeVideosReturned(t) ==
  /\ task[t].type = "merge"
  /\ task[t].pc \in {"edit", "send", "final", "done"}

\* C11: the manifest of a merge exists only while merge_videos runs its two
\* tools; once merge_videos has returned or raised (success, either tool
\* failing, or the start failing) the manifest is not in the directory.
C11_ManifestGone ==
  \A t \in Events : \A u \in Users :
    ListFile(u, t) \in files =>
      /\ task[t].type = "merge" /\ task[t].user = u
      /\ task[t].pc \in {"concat", "watermark"}

\* C11 witness: two merges of one user wrote their manifests; merge_videos
\* returned a result for one and raised for the other, and no manifest is left.
C11_Witness ==
  \E t, s \in Events :
    /\ MergeVideosReturned(t) /\ task[t].wm_rc = 0 /\ task[t].concat_runs = 1
    /\ MergeVideosReturned(s) /\ task[s].stage \in {"concat", "watermark"}
    /\ task[s].concat_runs = 1
    /\ \A f \in files : f.kind # "list"

\* The watermark tool was started for merge t.
WatermarkStarted(t) == task[t].wm_runs > 0 \/ task[t].pc = "watermark"

\* C12: the watermark tool is started for a merge only when the concatenation
\* of that merge has exited with code 0; after a non-zero exit it is never
\* started and the merge is over.
C12_WatermarkAfterConcat ==
  \A t \in Events :
    /\ WatermarkStarted(t) => task[t].concat_rc = 0
    /\ task[t].wm_rc # NotRun => task[t].concat_rc = 0
    /\ task[t].concat_rc \notin {0, NotRun} =>
         /\ ~WatermarkStarted(t) /\ task[t].wm_rc = NotRun
         /\ task[t].pc = "done"

\* C12 witness: one merge failed in the concatenation and never reached the
\* watermark tool, another has its watermark tool running after an exit 0.
C12_Witness ==
  \E t, s \in Events :
    /\ task[t].type = "merge" /\ task[t].concat_rc = 1 /\ task[t].wm_runs = 0
    /\ task[s].type = "merge" /\ task[s].concat_rc = 0 /\ task[s].pc = "watermark"
    /\ task[s].wm_runs = 1

----------------------------------------------------------------------------
\* Cleanup when a deletion can fail: os.remove / unlink raises for the paths
\* in bad (a file that is open elsewhere, a permission error).

\* video_processor.py:149-152  the loop over video_paths; an os.remove that
\* raises leaves the loop (the try is around the whole function body)
RECURSIVE RemoveEach(_, _, _)
RemoveEach(fs, video_paths, bad) ==
  IF video_paths = <<>>
    THEN [fs |-> fs, raised |-> FALSE]
    ELSE LET path == Head(video_paths)
         IN  IF path \in fs /\ path \in bad
               THEN [fs |-> fs, raised |-> TRUE]
               ELSE RemoveEach(fs \ {path}, Tail(video_paths), bad)

\* video_processor.py:160-167  the sweep swallows each file's failure
SweepDeletable(fs, u, bad) == fs \ {f \in UserDir(fs, u) : f \notin bad}

\* video_processor.py:145-169  an exception of the loop or of the removal of
\* the result file is caught at line 168, past the sweep
CleanWithFaults(fs, u, video_paths, result_path, bad) ==
  LET loop == RemoveEach(fs, video_paths, bad)
  IN  IF loop.raised
        THEN loop.fs
      ELSE IF result_path # NoPath /\ result_path \in loop.fs /\ result_path \in bad
        THEN loop.fs
        ELSE SweepDeletable(RemoveResult(loop.fs, result_path), u, bad)

\* bot.py:131-136  /reset with one file of the user's directory undeletable
ResetCommandFaulty(t, u, bad) ==
  /\ Fresh(t)
  /\ u \in DOMAIN user_videos /\ user_videos[u] # <<>>
  /\ bad # {} /\ bad \subseteq UserDir(files, u)
  /\ files' = CleanWithFaults(files, u, user_videos[u], NoPath, bad)
  /\ user_videos' = Clear(user_videos, u)
  /\ task' = [task EXCEPT ![t].type = "reset", ![t].user = u, ![t].pc = "done",
                          ![t].reply = "cleared", ![t].undeletable = bad]
  /\ UNCHANGED recorded

\* bot.py:110-119  the cleanup after a delivery with one file undeletable
MergeDeliveredFaulty(t, bad) ==
  /\ task[t].type = "merge" /\ task[t].pc = "send"
  /\ bad # {} /\ bad \subseteq UserDir(files, task[t].user)
  /\ LET u == task[t].user
     IN  /\ files' = CleanWithFaults(files, u, user_videos[u], WatermarkedPath(u, t), bad)
         /\ user_videos' = Clear(user_videos, u)
  /\ task' = [task EXCEPT ![t].pc = "final", ![t].delivered = TRUE,
                          ![t].undeletable = bad]
  /\ UNCHANGED recorded

\* One file at a time is undeletable: a stored video or a result file.
OneFile(fs) == {{f} : f \in {g \in fs : g.kind \in {"video", "watermarked"}}}

NextDeleteFaults ==
  \/ Next
  \/ \E t \in Events, u \in Users : \E bad \in OneFile(UserDir(files, u)) :
       ResetCommandFaulty(t, u, bad)
  \/ \E t \in Events : \E bad \in OneFile(files) : MergeDeliveredFaulty(t, bad)

SpecDeleteFaults == Init /\ [][NextDeleteFaults]_vars

\* C13: when a cleanup cannot delete one path, every other path of the list
\* it was given, the result file and every other file of the user's directory
\* are deleted all the same.
C13_CleanupGoesOn ==
  [][\A t \in Events :
       task'[t].undeletable # task[t].undeletable =>
         \A f \in Range(Pending(task'[t].user)) \cup UserDir(files, task'[t].user) :
           f \notin task'[t].undeletable => f \notin files']_vars

\* This step removes a stored video or changes a pending list.
ConsumesInputs ==
  \/ user_videos' # user_videos
  \/ \E f \in files : f.kind = "video" /\ f \notin files'

\* C14: a step of a merge removes stored videos or changes the pending list
\* only when it is the step in which the delivery of the result returned
\* without error (both tools having exited 0); the step in which the delivery
\* raises changes neither the lists nor the files.
C14_CleanupAfterDelivery ==
  [][\A t \in Events :
       /\ (task'[t].type = "merge" /\ StepOf(t) /\ ConsumesInputs) =>
            /\ task[t].pc = "send" /\ task'[t].delivered
            /\ task[t].concat_rc = 0 /\ task[t].wm_rc = 0
       /\ (task[t].pc = "send" /\ task'[t].stage = "send") =>
            /\ ~task'[t].delivered
            /\ user_videos' = user_videos /\ files' = files]_vars

\* C14 witness: the delivery of a merge raised; the pending list still is the
\* list the manifest was written from and its files and the result are on disk.
C14_Witness ==
  \E t \in Events :
    /\ task[t].type = "merge" /\ task[t].pc = "done" /\ task[t].stage = "send"
    /\ Len(task[t].manifest) >= 2
    /\ Pending(task[t].user) = task[t].manifest
    /\ Range(task[t].manifest) \subseteq files
    /\ WatermarkedPath(task[t].user, t) \in files

\* Merge t passed the precondition of bot.py:89.
Accepted(t) == task[t].type = "merge" /\ task[t].reply # "need_two"

\* C15 as stated: every accepted merge request, once over, has started the
\* concatenation tool exactly once and the watermark tool at most once.
C15_ExactlyOnce ==
  \A t \in Events :
    (Accepted(t) /\ task[t].pc = "done") =>
      task[t].concat_runs = 1 /\ task[t].wm_runs <= 1

\* C15 amended: an accepted merge request starts the concatenation tool at
\* most once: once when the status reply and the writing of the manifest
\* went through, not at all when one of them raised; it starts the watermark
\* tool at most once, and only after the concatenation; requests that were
\* rejected and other handlers start no tool.
C15_AtMostOnce ==
  \A t \in Events :
    /\ task[t].concat_runs <= 1 /\ task[t].wm_runs <= 1
    /\ task[t].wm_runs <= task[t].concat_runs
    /\ (Accepted(t) /\ task[t].pc \notin {"status", "done"}) => task[t].concat_runs = 1
    /\ (Accepted(t) /\ task[t].pc = "done") =>
         (task[t].concat_runs = 1) = (task[t].stage # "start")
    /\ ~Accepted(t) => task[t].concat_runs = 0

\* C15 witness: one merge is over after its watermark tool failed, with one
\* start of each tool; another is over without any start, its start having
\* raised.
C15_Witness ==
  \E t, s \in Events :
    /\ Accepted(t) /\ task[t].pc = "done" /\ task[t].stage = "watermark"
    /\ task[t].concat_runs = 1 /\ task[t].wm_runs = 1
    /\ Accepted(s) /\ task[s].pc = "done" /\ task[s].stage = "start"
    /\ task[s].concat_runs = 0

\* C16: a /reset arriving while the user's pending list is empty or absent
\* replies with the informational message and changes neither user_videos
\* (its keys included) nor any file.
C16_EmptyResetIsNoOp ==
  [][\A t \in Events :
       (Arrival(t, "reset") /\ Pending(task'[t].user) = <<>>) =>
         /\ task'[t].reply = "nothing_to_clear" /\ task'[t].pc = "done"
         /\ user_videos' = user_videos
         /\ files' = files]_vars

\* C16 witness: a /reset of a user without a session entry and a /reset of a
\* user whose list is empty while a file an earlier cleanup could not delete
\* is still in the directory both got the informational reply.
C16_Witness ==
  \E t, s \in Events :
    /\ task[t].type = "reset" /\ task[t].reply = "nothing_to_clear"
    /\ task[t].user \notin DOMAIN user_videos
    /\ task[s].type = "reset" /\ task[s].reply = "nothing_to_clear"
    /\ task[s].user \in DOMAIN user_videos
    /\ Pending(task[s].user) = <<>>
    /\ UserDir(files, task[s].user) # {}

\* The manifest of merge t was written.
ManifestWritten(t) == task[t].type = "merge" /\ task[t].concat_runs > 0

C18_NoDanglingPath ==
  \A u \in Users : \A p \in Range(Pending(u)) : p \in files

\* C18 witness: a /reset swept the directory of a user while a download of
\* that user was in progress; the download then completed, and the list
\* holds its path, whose file is on disk.
C18_Witness ==
  \E r, t \in Events :
    /\ task[r].type = "reset" /\ task[r].reply = "cleared"
    /\ t < r /\ StoredVideo(t) /\ task[t].user = task[r].user
    /\ Pending(task[r].user) = <<VideoPath(task[t].user, t)>>
    /\ VideoPath(task[t].user, t) \in files

\* One of the two tools of merge t is running.
PipelineRunning(t) == task[t].type = "merge" /\ task[t].pc \in {"concat", "watermark"}

----------------------------------------------------------------------------
\* Progress.  The event loop resumes a coroutine once what it awaits has
\* completed; under the assumption that every gateway call and every run of
\* the external tool returns, the next step of an accepted merge is taken.

\* The steps of merge t after its acceptance.
MergeProgress(t) ==
  \/ MergeVideosStart(t)
  \/ MergeStartFailed(t)
  \/ ConcatOk(t)
  \/ \E rc \in ExitCodes, partial \in BOOLEAN : ConcatFailed(t, rc, partial)
  \/ WatermarkOk(t)
  \/ \E rc \in ExitCodes, partial \in BOOLEAN : WatermarkFailed(t, rc, partial)
  \/ MergeSendStart(t)
  \/ MergeEditFailed(t)
  \/ MergeDelivered(t)
  \/ MergeDeliveryFailed(t)
  \/ \E ok \in BOOLEAN : MergeFinish(t, ok)

FairSpec == Spec /\ \A t \in Events : WF_vars(MergeProgress(t))

\* Merge t is in the Merging state: accepted and not yet over.
Merging(t) == task[t].type = "merge" /\ task[t].pc # "done"

\* Merge t is over: the result was delivered and the list cleared, or a
\* failure was reported without a delivery.
MergeOver(t) ==
  /\ task[t].type = "merge" /\ task[t].pc = "done"
  /\ \/ task[t].delivered /\ task[t].reply \in {"merged", "merge_error"}
     \/ ~task[t].delivered /\ task[t].reply = "merge_error"

\* C20: every accepted merge request eventually leaves the Merging state,
\* either with its result delivered or with a failure reported.
C20_MergeEnds ==
  \A t \in Events : Merging(t) ~> MergeOver(t)

\* C20 witness: of two merges of one user that were in flight together one
\* ended with its result delivered, the other with a failure reported.
C20_Witness ==
  \E t, s \in Events :
    /\ MergeOver(t) /\ task[t].delivered /\ task[t].reply = "merged"
    /\ MergeOver(s) /\ ~task[s].delivered /\ task[s].concat_runs = 1
    /\ task[s].user = task[t].user

====
